---- MODULE Spec2Model ----
(***************************************************************************)
(* A model of trex's load-filter-write pipeline:                           *)
(*   utils/data_sources.py  DataSource (locator, selection resolver,       *)
(*                          orchestrating mixins)                          *)
(*   utils/io.py            load_root (batched reader), book_output_file,  *)
(*                          update_write_df, write_df (writer)             *)
(*   utils/auth.py          kinit (remote authentication)                  *)
(* Python values are modelled structurally: None is a tagged record, a     *)
(* dict is a function on its key set (an ordered dict a sequence of        *)
(* <<key, value>> pairs), a string is a sequence of characters or tokens,  *)
(* an exception is a record naming its class.                              *)
(***************************************************************************)
EXTENDS Integers, Sequences, FiniteSets, TLC

VARIABLES
    file_map,   \* DataSource.file_map: the loaded JSON file index
    config,     \* DataSource.config: the loaded YAML configuration
    ret,        \* the last call of a DataSource method and what it gave
    store,      \* the source containers: path -> location -> tree
    env,        \* the installed container library and the output medium
    rd,         \* the frame of load_root
    files,      \* the output containers: path -> location -> table
    handles,    \* the output containers a caller holds open
    calls,      \* the writer calls made so far, in order
    run,        \* the frame of the multi-coordinate run
    log         \* what the logger has been handed, in order

vars == <<file_map, config, ret, store, env, rd, files, handles, calls, run, log>>

----------------------------------------------------------------------------
(* Python values *)

None == [some |-> FALSE]
Some(v) == [some |-> TRUE, v |-> v]

\* `not x` for an optional string, list or dict
Falsy(x) == (~x.some) \/ (Len(x.v) = 0)

Return(v) == [kind |-> "return", value |-> v]
Raise(exc, what) == [kind |-> "raise", exc |-> exc, what |-> what]

NoCall == [op |-> "none"]

\* t occurs in s as a contiguous run (Python's `t in s` on strings)
Contains(s, t) ==
    \E i \in 0..(Len(s) - Len(t)) : SubSeq(s, i + 1, i + Len(t)) = t

RECURSIVE Flatten(_)
Flatten(ss) == IF ss = <<>> THEN <<>> ELSE Head(ss) \o Flatten(Tail(ss))

Range(s) == {s[i] : i \in DOMAIN s}

SeqsUpTo(S, n) == UNION {[1..k -> S] : k \in 0..n}

----------------------------------------------------------------------------
(* Dataset locator: DataSource.get_file *)

YearKeys == {"2017", "2018"}
DataTypes == {"data", "mc"}
Magpols == {"MU", "MD"}
Paths == {"f1.root", "f2.root"}

\* the nested dicts json.load can give: year -> data_type -> magpol -> path
PartialMaps(K, V) == UNION {[S -> V] : S \in SUBSET K}
PolMaps == PartialMaps(Magpols, Paths)
TypeMaps == PartialMaps(DataTypes, PolMaps)
FileMaps == PartialMaps(YearKeys, TypeMaps)

\* d[k] on a dict: the value, or KeyError(k)
GetItem(d, k) == IF k \in DOMAIN d THEN Return(d[k]) ELSE Raise("KeyError", k)

get_file_swapped(fm, year, magpol, data_type) ==
    LET a == GetItem(fm, year) IN
    IF a.kind = "raise" THEN a ELSE
    LET b == GetItem(a.value, magpol) IN
    IF b.kind = "raise" THEN b ELSE
    GetItem(b.value, data_type)

\* self.file_map[year][data_type][magpol]; a KeyError is logged and re-raised
get_file(fm, year, magpol, data_type) ==
    LET a == GetItem(fm, year) IN
    IF a.kind = "raise" THEN a ELSE
    LET b == GetItem(a.value, data_type) IN
    IF b.kind = "raise" THEN b ELSE
    GetItem(b.value, magpol)

\* what get_file hands the logger: a debug line, and an error line on KeyError
get_file_log(year, magpol, data_type, out) ==
    <<[level |-> "debug", msg |-> "Fetching file", year |-> year,
       magpol |-> magpol, data_type |-> data_type]>>
    \o (IF out.kind = "raise"
        THEN <<[level |-> "error", msg |-> "Invalid combination", year |-> year,
                magpol |-> magpol, data_type |-> data_type, e |-> out.what]>>
        ELSE <<>>)

Idle ==
    /\ ret = NoCall
    /\ rd = [pc |-> "off"]
    /\ files = <<>>
    /\ handles = {}
    /\ calls = <<>>
    /\ run = [pc |-> "off"]
    /\ log = <<>>

NoConfig == <<>>
NoStore == <<>>
NoEnv == [strict_options |-> TRUE, readonly |-> {}]

InitLocate ==
    /\ file_map \in FileMaps
    /\ config = NoConfig
    /\ store = NoStore
    /\ env = NoEnv
    /\ Idle

\* one call of get_file on the loaded file map, for any coordinate
GetFile ==
    /\ ret = NoCall
    /\ \E year \in YearKeys, magpol \in Magpols, data_type \in DataTypes :
         LET out == get_file(file_map, year, magpol, data_type) IN
         /\ ret' = [op |-> "get_file", year |-> year, magpol |-> magpol,
                    data_type |-> data_type, out |-> out]
         /\ log' = log \o get_file_log(year, magpol, data_type, out)
    /\ UNCHANGED <<file_map, config, store, env, rd, files, handles, calls, run>>

NextLocate == GetFile

SpecLocate == InitLocate /\ [][NextLocate]_vars

\* C1: get_file looks the coordinate up year, then data type, then polarity:
\* with all three levels present it returns exactly the mapped path; with a
\* level missing it raises KeyError (no path, no default), the error carries
\* the key of the first missing level and the error is logged with it.
C1_GetFileResolvesOrFails ==
    ret.op = "get_file" =>
        LET y == ret.year
            d == ret.data_type
            m == ret.magpol
            yearThere == y \in DOMAIN file_map
            typeThere == yearThere /\ d \in DOMAIN file_map[y]
            polThere == typeThere /\ m \in DOMAIN file_map[y][d]
            missing == IF ~yearThere THEN y ELSE IF ~typeThere THEN d ELSE m
        IN  IF polThere
            THEN /\ ret.out = Return(file_map[y][d][m])
                 /\ \A i \in DOMAIN log : log[i].level # "error"
            ELSE /\ ret.out.kind = "raise"
                 /\ ret.out.exc = "KeyError"
                 /\ ret.out.what = missing
                 /\ \E i \in DOMAIN log :
                        log[i].level = "error" /\ log[i].e = missing

\* the scenario of the specification: {"2018": {"data": {"MU": "f1.root"}}},
\* (2018, MD, data) fails on the polarity level
C1_Witness ==
    /\ file_map = ("2018" :> ("data" :> ("MU" :> "f1.root")))
    /\ ret.op = "get_file"
    /\ ret.year = "2018" /\ ret.data_type = "data" /\ ret.magpol = "MD"
    /\ ret.out = Raise("KeyError", "MD")

----------------------------------------------------------------------------
(* Selection resolver: parse_data_selection, parse_mc_selection,
   get_read_params *)

MaxBoi == 3
MaxRules == 2

Channel == "butojpsik_mm"

\* branch names, character by character
B_PT == <<"B", "_", "P", "T">>
B_TRUEID == <<"B", "_", "T", "R", "U", "E", "I", "D">>
K_BKGCAT == <<"K", "_", "B", "K", "G", "C", "A", "T">>
b_trueid == <<"b", "_", "t", "r", "u", "e", "i", "d">>
B_TRUE_ID == <<"B", "_", "T", "R", "U", "E", "_", "I", "D">>
BranchNames == {B_PT, B_TRUEID, K_BKGCAT, b_trueid, B_TRUE_ID}

TRUEID == <<"T", "R", "U", "E", "I", "D">>
BKGCAT == <<"B", "K", "G", "C", "A", "T">>

\* a selection dict in insertion order: <<rule name, expression>> pairs, the
\* names distinct; an expression is a string, token by token
RuleNames == {"common", "truth_matching", "muon_tos"}
Exprs == {<<"PT>500">>, <<"TRUEID==13">>, <<"ISMUON">>}
Selections ==
    {s \in SeqsUpTo(RuleNames \X Exprs, MaxRules) :
        \A i, j \in DOMAIN s : i # j => s[i][1] # s[j][1]}

AND == <<" & ">>

\* sep.join(xs)
RECURSIVE Join(_, _)
Join(sep, xs) ==
    IF xs = <<>> THEN <<>>
    ELSE IF Len(xs) = 1 THEN xs[1]
    ELSE xs[1] \o sep \o Join(sep, Tail(xs))

\* [v for k, v in selection.items() if k not in skip]
RECURSIVE Values(_, _)
Values(selection, skip) ==
    IF selection = <<>> THEN <<>>
    ELSE (IF selection[1][1] \notin skip THEN <<selection[1][2]>> ELSE <<>>)
         \o Values(Tail(selection), skip)

parse_mc_selection(selection) == Join(AND, Values(selection, {}))

parse_data_selection_keeps_truth(selection) == parse_mc_selection(selection)

parse_data_selection(selection) ==
    Join(AND, Values(selection, {"truth_matching"}))

\* a branch list with the repeats of a name dropped, the first kept
RECURSIVE Dedup(_)
Dedup(boi) ==
    IF boi = <<>> THEN <<>>
    ELSE LET front == Dedup(SubSeq(boi, 1, Len(boi) - 1))
             last == boi[Len(boi)]
         IN  IF \E i \in DOMAIN front : front[i] = last THEN front
             ELSE Append(front, last)

data_boi_deduplicated(boi) ==
    Dedup(SelectSeq(boi, LAMBDA c : ~Contains(c, TRUEID) /\ ~Contains(c, BKGCAT)))

data_boi_trueid_only(boi) ==
    SelectSeq(boi, LAMBDA c : ~Contains(c, TRUEID))

\* [c for c in boi if "TRUEID" not in c and "BKGCAT" not in c]
data_boi(boi) ==
    SelectSeq(boi, LAMBDA c : ~Contains(c, TRUEID) /\ ~Contains(c, BKGCAT))

\* dict.get(k) on the channel's configuration
Get(d, k) == IF k \in DOMAIN d THEN Some(d[k]) ELSE None

get_read_params(cfg, channel, data_type) ==
    IF ~("channel" \in DOMAIN cfg /\ channel \in DOMAIN cfg.channel)
    THEN Raise("KeyError", IF "channel" \in DOMAIN cfg THEN channel ELSE "channel")
    ELSE
    LET channel_config == cfg.channel[channel]
        key == Get(channel_config, "key")
        tree == Get(channel_config, "tree")
        boi == Get(channel_config, "boi")
        sel == Get(channel_config, "selection")
    IN  IF Falsy(key) \/ Falsy(tree) \/ Falsy(boi) \/ Falsy(sel)
        THEN Raise("ValueError", "Missing necessary parameters")
        ELSE CASE data_type = "data" ->
                    Return([key |-> key.v, tree |-> tree.v,
                            boi |-> data_boi(boi.v),
                            sel |-> parse_data_selection(sel.v)])
               [] data_type = "mc" ->
                    Return([key |-> key.v, tree |-> tree.v,
                            boi |-> boi.v,
                            sel |-> parse_mc_selection(sel.v)])
               [] OTHER -> Raise("ValueError", "Invalid data type")

\* what get_read_params hands the logger: one debug line when it returns
get_read_params_log(data_type, out) ==
    IF out.kind = "return"
    THEN <<[level |-> "debug", msg |-> "Received input loading coordinates",
            data_type |-> data_type, params |-> out.value]>>
    ELSE <<>>

\* a channel's configuration: the keys the YAML document gives it
ChannelConfig(key, tree, boi, sel) ==
    LET given == {<<"key", key>>, <<"tree", tree>>, <<"boi", boi>>,
                  <<"selection", sel>>}
        value(f) == (CHOOSE g \in given : g[1] = f)[2]
    IN  [f \in {g[1] : g \in {h \in given : h[2].some}} |-> value(f).v]

KeyOptions == {None, Some(<<>>), Some(<<"B2JpsiK">>)}
TreeOptions == {None, Some(<<"DecayTree">>)}
BoiLists == SeqsUpTo(BranchNames, MaxBoi)
ScenarioBoi == <<B_PT, B_TRUEID>>
ScenarioSelection ==
    << <<"common", <<"PT>500">> >>, <<"truth_matching", <<"TRUEID==13">> >> >>

ConfigOf(cc) == [channel |-> (Channel :> cc)]

InitSelect ==
    /\ file_map = <<>>
    /\ store = NoStore
    /\ env = NoEnv
    /\ Idle
    /\ \/ config = [channel |-> <<>>]
       \/ \E key \in KeyOptions, tree \in TreeOptions :
            \/ \E boi \in {None} \cup {Some(b) : b \in BoiLists} :
                 config = ConfigOf(ChannelConfig(key, tree, boi,
                                                 Some(ScenarioSelection)))
            \/ \E sel \in {None} \cup {Some(x) : x \in Selections} :
                 config = ConfigOf(ChannelConfig(key, tree, Some(ScenarioBoi),
                                                 sel))

\* one call of get_read_params, for any data type string
GetReadParams ==
    /\ ret = NoCall
    /\ \E data_type \in DataTypes \cup {"MC"} :
         LET out == get_read_params(config, Channel, data_type) IN
         /\ ret' = [op |-> "get_read_params", data_type |-> data_type,
                    out |-> out]
         /\ log' = log \o get_read_params_log(data_type, out)
    /\ UNCHANGED <<file_map, config, store, env, rd, files, handles, calls, run>>

NextSelect == GetReadParams

SpecSelect == InitSelect /\ [][NextSelect]_vars

Resolved == ret.op = "get_read_params" /\ ret.out.kind = "return"

Configured(field) == config.channel[Channel][field]

\* the expressions of a selection's rules, in insertion order, one per rule
\* whose name is not in `skip`
RuleExprs(selection, skip) ==
    LET kept == SelectSeq(selection, LAMBDA r : r[1] \notin skip)
    IN  [i \in 1..Len(kept) |-> kept[i][2]]

\* xs[1] & xs[2] & ... & xs[n], laid out position by position
Interleaved(xs) ==
    LET n == IF Len(xs) = 0 THEN 0 ELSE 2 * Len(xs) - 1
    IN  Flatten([i \in 1..n |-> IF i % 2 = 1 THEN xs[(i + 1) \div 2] ELSE AND])

\* C2 as stated: the 'data' cut is the ' & '-join of the rules other than
\* truth_matching and so never contains the truth-matching clause; the 'mc'
\* cut is the ' & '-join of all the rules.
C2_DataCutNeverContainsTruthClause ==
    Resolved =>
        LET selection == Configured("selection") IN
        /\ ret.data_type = "data" =>
              /\ ret.out.value.sel
                    = Interleaved(RuleExprs(selection, {"truth_matching"}))
              /\ \A i \in DOMAIN selection :
                    selection[i][1] = "truth_matching"
                        => ~Contains(ret.out.value.sel, selection[i][2])
        /\ ret.data_type = "mc" =>
              ret.out.value.sel = Interleaved(RuleExprs(selection, {}))

\* C2, amended: the 'data' cut is the ' & '-join, in insertion order, of the
\* expressions of every rule except the one named truth_matching, which
\* contributes no clause; the 'mc' cut is the ' & '-join of all of them.
C2_CutIsJoinOfRules ==
    Resolved =>
        LET selection == Configured("selection") IN
        /\ ret.data_type = "data" =>
              ret.out.value.sel
                  = Interleaved(RuleExprs(selection, {"truth_matching"}))
        /\ ret.data_type = "mc" =>
              ret.out.value.sel = Interleaved(RuleExprs(selection, {}))

\* {common: "PT>500", truth_matching: "TRUEID==13"} resolved for data
C2_Witness ==
    /\ Resolved
    /\ ret.data_type = "data"
    /\ Configured("selection") = ScenarioSelection
    /\ ret.out.value.sel = <<"PT>500">>

HasMarker(c) ==
    \E m \in {TRUEID, BKGCAT} :
        \E i \in 1..Len(c) : \E j \in i..Len(c) : SubSeq(c, i, j) = m

\* the branches of a list that carry no marker, in the list's order
RECURSIVE Unmarked(_)
Unmarked(boi) ==
    IF boi = <<>> THEN <<>>
    ELSE (IF HasMarker(Head(boi)) THEN <<>> ELSE <<Head(boi)>>)
         \o Unmarked(Tail(boi))

\* C3: for 'data' the resolved branch list holds no branch whose name
\* contains TRUEID or BKGCAT and holds every other configured branch in its
\* original relative order; for 'mc' it holds every configured branch.
C3_DataBranchesCarryNoTruthMarker ==
    Resolved =>
        LET boi == Configured("boi") IN
        /\ ret.data_type = "data" =>
              /\ \A i \in DOMAIN ret.out.value.boi :
                    ~HasMarker(ret.out.value.boi[i])
              /\ ret.out.value.boi = Unmarked(boi)
        /\ ret.data_type = "mc" => ret.out.value.boi = boi

C3_Witness ==
    /\ Resolved
    /\ ret.data_type = "data"
    /\ Configured("boi") = <<B_TRUEID, b_trueid, K_BKGCAT>>
    /\ ret.out.value.boi = <<b_trueid>>

\* how often name c occurs in a branch list
Count(boi, c) == Cardinality({i \in DOMAIN boi : boi[i] = c})

\* C15 as stated: the resolved branch list holds each branch name at most
\* once, whatever the configured list repeats, for both data types.
C15_BranchListIsDeduplicated ==
    Resolved =>
        \A c \in BranchNames : Count(ret.out.value.boi, c) <= 1

\* C15, amended: the resolved branch list is not deduplicated: it holds each
\* branch name as often as the configured list names it (for 'data': a name
\* with a truth marker not at all), for both data types.
C15_BranchListKeepsRepeats ==
    Resolved =>
        \A c \in BranchNames :
            Count(ret.out.value.boi, c) =
                IF ret.data_type = "data" /\ HasMarker(c) THEN 0
                ELSE Count(Configured("boi"), c)

\* a list naming B_PT twice, resolved for data
C15_Witness ==
    /\ Resolved
    /\ ret.data_type = "data"
    /\ Configured("boi") = <<B_PT, B_TRUEID, B_PT>>
    /\ ret.out.value.boi = <<B_PT, B_PT>>

\* the channel configuration gives field a value that is not empty
Given(field) ==
    /\ field \in DOMAIN config.channel[Channel]
    /\ Len(Configured(field)) > 0

ConfigurationError ==
    /\ ret.out.kind = "raise"
    /\ ret.out.exc = "ValueError"
    /\ ret.out.what = "Missing necessary parameters"

\* C11 as stated: for a configured channel, get_read_params fails with the
\* configuration error exactly when the branch list, the selection rules or
\* the tree name is absent; the storage key is optional: with tree, branches
\* and selection given and no key it returns, and the key it returns is none.
C11_KeyIsOptional ==
    (/\ ret.op = "get_read_params"
     /\ ret.data_type \in DataTypes
     /\ Channel \in DOMAIN config.channel) =>
        /\ ConfigurationError
              <=> ~(Given("tree") /\ Given("boi") /\ Given("selection"))
        /\ (Given("tree") /\ Given("boi") /\ Given("selection")
               /\ ~Given("key")) => ret.out.kind = "return"

----------------------------------------------------------------------------
(* Writer: book_output_file, update_write_df, write_df *)

MaxCalls == 4

\* a table: its columns and its rows (entry numbers), in order
Table(schema, rows) == [schema |-> schema, rows |-> rows]

\* f"{key}/{treename}", or f"{treename}" when key is None
Location(key, treename) ==
    IF key.some THEN key.v \o <<"/">> \o treename ELSE treename

book_output_file_keeps(fs, path) ==
    IF path \in DOMAIN fs THEN fs ELSE (path :> <<>>) @@ fs

\* uproot.recreate(path): the container at path is created empty, whatever
\* was there before
book_output_file(fs, path) == (path :> <<>>) @@ fs

update_write_df_appends(outfile, data, key, treename) ==
    LET loc == Location(key, treename) IN
    IF loc \in DOMAIN outfile
    THEN (loc :> Table(data.schema, outfile[loc].rows \o data.rows)) @@ outfile
    ELSE (loc :> data) @@ outfile

\* outfile[f"{key}/{treename}"] = data, or outfile[f"{treename}"] = data
update_write_df(outfile, data, key, treename) ==
    (Location(key, treename) :> data) @@ outfile

\* the readback update_write_df prints: outfile[location].num_entries
num_entries_written(outfile, key, treename) ==
    Len(outfile[Location(key, treename)].rows)

write_df(fs, data, path, key, treename) ==
    LET booked == book_output_file(fs, path) IN
    (path :> update_write_df(booked[path], data, key, treename)) @@ booked

OutPaths == {<<"out", "/", "a.root">>, <<"out", "/", "b.root">>}
WriteKeys == {None, Some(<<"k">>)}
WriteTrees == {<<"DecayTree">>, <<"k", "/", "DecayTree">>}
WriteTables == {Table(<<B_PT>>, <<1>>), Table(<<B_PT>>, <<2, 1>>)}

InitWrite ==
    /\ file_map = <<>>
    /\ config = NoConfig
    /\ store = NoStore
    /\ env = NoEnv
    /\ Idle

\* write_df(data, path, key, treename): book the file anew and write once;
\* the handle is local to the call
WriteDf ==
    /\ Len(calls) < MaxCalls
    /\ \E data \in WriteTables, path \in OutPaths, key \in WriteKeys,
          treename \in WriteTrees :
         /\ files' = write_df(files, data, path, key, treename)
         /\ handles' = handles \ {path}
         /\ calls' = Append(calls, [op |-> "write_df", path |-> path,
                                    key |-> key, treename |-> treename,
                                    data |-> data])
    /\ UNCHANGED <<file_map, config, ret, store, env, rd, run, log>>

\* outfile = book_output_file(path), kept open by the caller
BookOutputFile ==
    /\ Len(calls) < MaxCalls
    /\ \E path \in OutPaths :
         /\ files' = book_output_file(files, path)
         /\ handles' = handles \cup {path}
         /\ calls' = Append(calls, [op |-> "book_output_file", path |-> path])
    /\ UNCHANGED <<file_map, config, ret, store, env, rd, run, log>>

\* update_write_df(outfile, data, key, treename) on a container held open
UpdateWriteDf ==
    /\ Len(calls) < MaxCalls
    /\ \E path \in handles, data \in WriteTables, key \in WriteKeys,
          treename \in WriteTrees :
         /\ files' = (path :> update_write_df(files[path], data, key, treename))
                      @@ files
         /\ calls' = Append(calls, [op |-> "update_write_df", path |-> path,
                                    key |-> key, treename |-> treename,
                                    data |-> data,
                                    printed |-> num_entries_written(
                                        files'[path], key, treename)])
    /\ UNCHANGED <<file_map, config, ret, store, env, rd, handles, run, log>>

NextWrite == WriteDf \/ BookOutputFile \/ UpdateWriteDf

SpecWrite == InitWrite /\ [][NextWrite]_vars

\* the calls that recreate the container at path
Recreates(i, path) ==
    calls[i].path = path /\ calls[i].op \in {"write_df", "book_output_file"}

\* the calls that wrote location loc of the container at path
WritesTo(i, path, loc) ==
    /\ calls[i].path = path
    /\ calls[i].op \in {"write_df", "update_write_df"}
    /\ Location(calls[i].key, calls[i].treename) = loc

\* C7: write_df always recreates the container: once write_df(B, path, k2, t2)
\* has returned, the container at path holds exactly one location, (k2, t2),
\* with B's rows, whatever was written to the path before it.
C7_WriteDfLeavesOnlyItsOwnTable ==
    \A i \in DOMAIN calls :
        (i = Len(calls) /\ calls[i].op = "write_df") =>
            /\ DOMAIN files[calls[i].path]
                 = {Location(calls[i].key, calls[i].treename)}
            /\ files[calls[i].path][Location(calls[i].key, calls[i].treename)]
                 = calls[i].data

\* write_df(A, path, k1, t1) then write_df(B, path, k2, t2), with A # B and
\* two different locations
C7_Witness ==
    /\ Len(calls) >= 2
    /\ LET a == calls[Len(calls) - 1]
           b == calls[Len(calls)]
       IN  /\ a.op = "write_df" /\ b.op = "write_df"
           /\ a.path = b.path
           /\ a.data # b.data
           /\ Location(a.key, a.treename) # Location(b.key, b.treename)
           /\ DOMAIN files[b.path] = {Location(b.key, b.treename)}

LocationsWritten ==
    {Location(k, t) : k \in WriteKeys, t \in WriteTrees}

\* C8: update_write_df changes exactly the location it is given: in a
\* container held open, every location written since the container was
\* booked holds exactly the table last written to it (a later write to
\* another location does not alter it, a repeated write replaces its rows)
\* and no other location exists.
C8_UpdateChangesOnlyItsLocation ==
    \A path \in handles : \A loc \in LocationsWritten :
        LET booked == CHOOSE i \in DOMAIN calls :
                /\ Recreates(i, path)
                /\ \A j \in DOMAIN calls : Recreates(j, path) => j <= i
            since == {i \in DOMAIN calls : i > booked /\ WritesTo(i, path, loc)}
        IN  /\ DOMAIN files[path] \subseteq LocationsWritten
            /\ IF since = {}
               THEN loc \notin DOMAIN files[path]
               ELSE LET last == CHOOSE i \in since : \A j \in since : j <= i
                    IN  /\ loc \in DOMAIN files[path]
                        /\ files[path][loc] = calls[last].data
                        /\ calls[last].printed = Len(calls[last].data.rows)

\* two locations written in turn and the first written again, with other rows
C8_Witness ==
    /\ Len(calls) >= 3
    /\ LET a == calls[Len(calls) - 2]
           b == calls[Len(calls) - 1]
           c == calls[Len(calls)]
       IN  /\ a.op = "update_write_df" /\ b.op = "update_write_df"
           /\ c.op = "update_write_df"
           /\ Location(a.key, a.treename) # Location(b.key, b.treename)
           /\ Location(a.key, a.treename) = Location(c.key, c.treename)
           /\ a.data # c.data
           /\ files[c.path][Location(b.key, b.treename)] = b.data
           /\ files[c.path][Location(c.key, c.treename)] = c.data

----------------------------------------------------------------------------
(* Batched reader: load_root *)

MaxRows == 3
MaxBatch == 2
MaxCap == 2

Min(a, b) == IF a <= b THEN a ELSE b

\* f"{x}": None prints as the word None
Str(x) == IF x.some THEN x.v ELSE <<"None">>

\* f"{key}/{tree_name}", or f"{tree_name}" when key is None
SourceLocation(key, tree_name) ==
    IF key.some THEN key.v \o <<"/">> \o Str(tree_name) ELSE Str(tree_name)

\* uproot.open(f"{file_path}:{location}")
uproot_open(st, file_path, key, tree_name) ==
    LET loc == SourceLocation(key, tree_name) IN
    IF file_path \notin DOMAIN st THEN Raise("FileNotFoundError", file_path)
    ELSE IF loc \notin DOMAIN st[file_path] THEN Raise("KeyInFileError", loc)
    ELSE Return(st[file_path][loc])

\* the cut, evaluated by the container on one event: every clause of the
\* ' & '-joined expression holds of it; no cut keeps every event
Eval(cut, event) ==
    cut.some => \A i \in DOMAIN cut.v : cut.v[i] \in event \cup {AND[1]}

\* entry_stop: the entries a read ranges over
Stop(events, max_entries) ==
    IF max_entries.some THEN Min(max_entries.v, Len(events.rows))
    ELSE Len(events.rows)

\* the entries lo+1..hi that pass the cut, in entry order
Passing(events, cut, lo, hi) ==
    SelectSeq([j \in 1..(hi - lo) |-> lo + j],
              LAMBDA i : Eval(cut, events.rows[i]))

\* events.arrays(expressions=branches, cut=cut, entry_stop=max_entries)
arrays(events, branches, cut, max_entries) ==
    Table(branches, Passing(events, cut, 0, Stop(events, max_entries)))

\* round(x) of Python 3 on x = num / den: to the nearest, a tie to the even
round(num, den) ==
    LET q == num \div den
        r == num % den
    IN  IF 2 * r < den THEN q
        ELSE IF 2 * r > den THEN q + 1
        ELSE IF q % 2 = 0 THEN q ELSE q + 1

\* round(tevs / bevs + 0.5)
nits_of(tevs, bevs) == round(2 * tevs + bevs, 2 * bevs)

accumulate_front(aggr, batch) == <<batch>> \o aggr

\* aggr.append(batch)
accumulate(aggr, batch) == Append(aggr, batch)

\* pd.concat(aggr): the rows of the frames in list order; an empty list is
\* an error
pd_concat(aggr) ==
    IF aggr = <<>> THEN Raise("ValueError", "No objects to concatenate")
    ELSE Return(Table(aggr[1].schema,
                      Flatten([i \in DOMAIN aggr |-> aggr[i].rows])))

\* the frame of a call of load_root, its arguments bound
Frame(caller, args) ==
    [pc |-> "called", caller |-> caller, args |-> args, events |-> <<>>,
     nits |-> 0, cursor |-> 0, aggr |-> <<>>, at |-> "open",
     out |-> [kind |-> "none"]]

Finished(frame, at, out) ==
    [frame EXCEPT !.pc = IF out.kind = "return" THEN "returned" ELSE "raised",
                  !.at = at, !.out = out]

\* options load_root passes on in **kwargs that the container library does
\* not know: a library that checks its options raises TypeError
Rejected(kwargs) == env.strict_options /\ DOMAIN kwargs # {}

\* load_root up to the start of the iteration: open the tree, then for
\* library "pd" the batch estimate, the expected iteration count and the
\* call of events.iterate
Open ==
    /\ rd.pc = "called"
    /\ LET a == rd.args
           opened == uproot_open(store, a.file_path, a.key, a.tree_name)
       IN  IF opened.kind = "raise" THEN rd' = Finished(rd, "open", opened)
           ELSE IF a.library # "pd"
           THEN rd' = [rd EXCEPT !.pc = "arrays", !.events = opened.value]
           ELSE IF opened.value.bevs = 0
           THEN rd' = Finished(rd, "nits",
                               Raise("ZeroDivisionError", "division by zero"))
           ELSE IF Rejected(a.kwargs)
           THEN rd' = Finished(rd, "iterate",
                               Raise("TypeError", "unexpected keyword argument"))
           ELSE rd' = [rd EXCEPT
                        !.pc = "iterate", !.events = opened.value,
                        !.nits = nits_of(Len(opened.value.rows),
                                         opened.value.bevs)]
    /\ UNCHANGED <<file_map, config, ret, store, env, files, handles, calls,
                   run, log>>

\* one turn of the for loop: the stream yields the next batch, the entries of
\* the next step that pass the cut, and it is put on the accumulator
NextBatch ==
    /\ rd.pc = "iterate"
    /\ rd.cursor < Stop(rd.events, rd.args.max_entries)
    /\ LET hi == Min(rd.cursor + rd.events.step,
                     Stop(rd.events, rd.args.max_entries))
           batch == Table(rd.args.branches,
                          Passing(rd.events, rd.args.cut, rd.cursor, hi))
       IN  rd' = [rd EXCEPT !.cursor = hi,
                            !.aggr = accumulate(rd.aggr, batch)]
    /\ UNCHANGED <<file_map, config, ret, store, env, files, handles, calls,
                   run, log>>

\* the stream is exhausted: the loop ends and the batches are concatenated
Concat ==
    /\ rd.pc = "iterate"
    /\ rd.cursor >= Stop(rd.events, rd.args.max_entries)
    /\ rd' = Finished(rd, "concat", pd_concat(rd.aggr))
    /\ UNCHANGED <<file_map, config, ret, store, env, files, handles, calls,
                   run, log>>

\* any other library: one events.arrays call
Arrays ==
    /\ rd.pc = "arrays"
    /\ rd' = Finished(rd, "arrays",
                      IF Rejected(rd.args.kwargs)
                      THEN Raise("TypeError", "unexpected keyword argument")
                      ELSE Return(arrays(rd.events, rd.args.branches,
                                         rd.args.cut, rd.args.max_entries)))
    /\ UNCHANGED <<file_map, config, ret, store, env, files, handles, calls,
                   run, log>>

\* the events of a tree: what each satisfies of the rule expressions
EventKinds == {{}, {"PT>500"}, {"PT>500", "TRUEID==13"}}

\* a tree: its events, the entries its size estimate gives for the byte
\* budget (num_entries_for) and the entries one step of iterate spans
Trees ==
    [rows : SeqsUpTo(EventKinds, MaxRows), bevs : 0..MaxBatch,
     step : 1..MaxBatch]

Cuts == {None, Some(<<"PT>500">>), Some(<<"PT>500", " & ", "TRUEID==13">>)}

InitRead ==
    /\ file_map = <<>>
    /\ config = NoConfig
    /\ env = NoEnv
    /\ \E tree \in Trees :
         store = ("f1.root" :> (<<"B2JpsiK", "/", "DecayTree">> :> tree))
    /\ Idle

\* load_root called directly, with any arguments
CallLoadRoot ==
    /\ rd.pc = "off"
    /\ \E library \in {"pd", "ak"},
          key \in {None, Some(<<"B2JpsiK">>)},
          cut \in Cuts,
          max_entries \in {None} \cup {Some(n) : n \in 0..MaxCap} :
         rd' = Frame("direct",
                     [file_path |-> "f1.root", library |-> library,
                      key |-> key, tree_name |-> Some(<<"DecayTree">>),
                      branches |-> <<B_PT>>, cut |-> cut,
                      max_entries |-> max_entries, kwargs |-> <<>>])
    /\ UNCHANGED <<file_map, config, ret, store, env, files, handles, calls,
                   run, log>>

NextRead == CallLoadRoot \/ Open \/ NextBatch \/ Concat \/ Arrays

SpecRead == InitRead /\ [][NextRead]_vars

\* C5 as stated: a batched read whose iteration ends without having yielded
\* a batch returns an empty table with the requested columns; it raises
\* nothing.
C5_ZeroBatchesGiveEmptyTable ==
    (rd.pc \in {"returned", "raised"} /\ rd.at = "concat" /\ rd.aggr = <<>>)
        => rd.out = Return(Table(rd.args.branches, <<>>))

\* C9: the table the batched read returns is, row for row and in order, the
\* table one events.arrays call with the same branches, cut and entry_stop
\* gives: no event reordered, dropped or duplicated.
C9_BatchedReadEqualsOneShot ==
    (rd.pc = "returned" /\ rd.at = "concat") =>
        rd.out.value = arrays(rd.events, rd.args.branches, rd.args.cut,
                              rd.args.max_entries)

\* three entries read in two batches, the cut dropping the middle one
C9_Witness ==
    /\ rd.pc = "returned" /\ rd.at = "concat"
    /\ Len(rd.aggr) = 2
    /\ rd.out.value.rows = <<1, 3>>

\* the batched path has computed its expected iteration count
Estimated ==
    /\ rd.pc \in {"iterate", "returned", "raised"}
    /\ rd.args.library = "pd"
    /\ rd.at \in {"open", "concat"}
    /\ rd.pc # "iterate" => rd.at = "concat"

Ceil(t, b) == (t + b - 1) \div b

\* C14 as stated: with T rows in the tree and an estimate of B >= 1 rows per
\* batch, the expected iteration count handed to the progress bar is
\* ceil(T / B), so T / B when B divides T; the loop ends when the stream is
\* exhausted, with every entry of the range read, whether the batches were
\* fewer or more than expected.
C14_ExpectedIterationsIsCeiling ==
    Estimated =>
        /\ rd.nits = Ceil(Len(rd.events.rows), rd.events.bevs)
        /\ rd.at = "concat" =>
              rd.cursor = Stop(rd.events, rd.args.max_entries)

----------------------------------------------------------------------------
(* Orchestrator: load_root_file, load_multiple_configs_from_config,
   write_multiple_files_from_config *)

\* dict.get(k, default)
GetOr(d, k, default) == IF k \in DOMAIN d THEN d[k] ELSE default

Years == GetOr(config, "years", <<>>)
MagpolsOf == GetOr(config, "magpols", <<>>)

\* f"{label}": the text of a year or polarity label; an underscore inside a
\* label is the same character as the underscores of the file name
Spelling == ("MD_2018" :> <<"MD", "_", "2018">>)
Text(label) == IF label \in DOMAIN Spelling THEN Spelling[label] ELSE <<label>>

OutputFile_without_year(output_dir, data_type, magpol, year) ==
    output_dir \o <<"/", Channel, "_", data_type, "_">> \o Text(magpol)
               \o <<".root">>

\* f"{output_dir}/{self.channel}_{data_type}_{magpol}_{year}.root"
OutputFile(output_dir, data_type, magpol, year) ==
    output_dir \o <<"/", Channel, "_", data_type, "_">> \o Text(magpol)
               \o <<"_">> \o Text(year) \o <<".root">>

\* a line handed to self.logger while (year, magpol) is being processed
Entry(level, msg, year, magpol, e) ==
    [level |-> level, msg |-> msg, year |-> year, magpol |-> magpol, e |-> e]

RunFrame(mode, data_type, kwargs) ==
    [pc |-> "locate", mode |-> mode, data_type |-> data_type,
     kwargs |-> kwargs, yi |-> 1, mi |-> 1, ntuple_file |-> "",
     params |-> <<>>, df |-> <<>>, exc |-> <<>>]

Year(r) == Years[r.yi]
Magpol(r) == MagpolsOf[r.mi]

\* the top of the loop body: the info line of the coordinate about to be
\* processed
LoopHead(r) ==
    IF r.pc = "locate"
    THEN <<Entry("info", IF r.mode = "write" THEN "Processing"
                         ELSE "Loading config", Year(r), Magpol(r), "")>>
    ELSE <<>>

NextCoordinate_magpol_major(r) ==
    LET fresh == [r EXCEPT !.ntuple_file = "", !.params = <<>>, !.df = <<>>,
                           !.exc = <<>>]
    IN  IF r.yi < Len(Years)
        THEN [fresh EXCEPT !.pc = "locate", !.yi = r.yi + 1]
        ELSE IF r.mi < Len(MagpolsOf)
        THEN [fresh EXCEPT !.pc = "locate", !.mi = r.mi + 1, !.yi = 1]
        ELSE [fresh EXCEPT !.pc = "done"]

\* for year in years: for magpol in magpols: the next turn, or the return
NextCoordinate(r) ==
    LET fresh == [r EXCEPT !.ntuple_file = "", !.params = <<>>, !.df = <<>>,
                           !.exc = <<>>]
    IN  IF r.mi < Len(MagpolsOf)
        THEN [fresh EXCEPT !.pc = "locate", !.mi = r.mi + 1]
        ELSE IF r.yi < Len(Years)
        THEN [fresh EXCEPT !.pc = "locate", !.yi = r.yi + 1, !.mi = 1]
        ELSE [fresh EXCEPT !.pc = "done"]

ExceptionClasses ==
    {"KeyError", "ValueError", "TypeError", "FileNotFoundError",
     "KeyInFileError", "ZeroDivisionError", "PermissionError"}

caught_key_error_only(exc) == exc = "KeyError"

\* except Exception as e
caught(exc) == exc \in ExceptionClasses

\* the call of line 213 bound to load_root's signature: library is required
\* and comes from the caller's kwargs; tree_name and max_entries are not
\* passed; tree= and max_events= fall into **kwargs
bind_load_root(ntuple_file, params, max_events, kwargs) ==
    IF "library" \notin DOMAIN kwargs
    THEN Raise("TypeError", "missing 1 required positional argument: library")
    ELSE Return([file_path |-> ntuple_file, library |-> kwargs.library,
                 key |-> Some(params.key), tree_name |-> None,
                 branches |-> params.boi, cut |-> Some(params.sel),
                 max_entries |-> None,
                 kwargs |-> [k \in (DOMAIN kwargs \ {"library"})
                                   \cup {"tree", "max_events"} |->
                               IF k = "tree" THEN Some(params.tree)
                               ELSE IF k = "max_events" THEN max_events
                               ELSE kwargs[k]]])

load_root_file_rejects_empty(df, year, magpol) ==
    IF Len(df.rows) > 0
    THEN [out |-> Return(df),
          log |-> <<Entry("debug", "File Load Report", year, magpol, "")>>]
    ELSE [out |-> Raise("ValueError", "No data loaded"), log |-> <<>>]

\* lines 215-220: the report for a table with rows, a warning for one
\* without; the table is returned either way
load_root_file_returns(df, year, magpol) ==
    [out |-> Return(df),
     log |-> IF Len(df.rows) > 0
             THEN <<Entry("debug", "File Load Report", year, magpol, "")>>
             ELSE <<Entry("warning", "No data loaded", year, magpol, "")>>]

\* load_multiple_configs_from_config(data_type, **kwargs) or
\* write_multiple_files_from_config(data_type, **kwargs) is called
StartRun ==
    /\ run.pc = "off"
    /\ \E mode \in {"load", "write"}, data_type \in DataTypes,
          kwargs \in {<<>>, [library |-> "pd"], [library |-> "ak"]} :
         IF Years = <<>> \/ MagpolsOf = <<>>
         THEN /\ run' = [RunFrame(mode, data_type, kwargs) EXCEPT !.pc = "done"]
              /\ log' = Append(log, Entry("error",
                                 "No years or magnet polarities specified",
                                 "", "", ""))
         ELSE /\ run' = RunFrame(mode, data_type, kwargs)
              /\ log' = log \o LoopHead(run')
    /\ UNCHANGED <<file_map, config, ret, store, env, rd, files, handles,
                   calls>>

\* load_root_file, line 207: the file of the coordinate
Locate ==
    /\ run.pc = "locate"
    /\ LET out == get_file(file_map, Year(run), Magpol(run), run.data_type) IN
       /\ run' = IF out.kind = "raise"
                 THEN [run EXCEPT !.pc = "except", !.exc = out]
                 ELSE [run EXCEPT !.pc = "resolve", !.ntuple_file = out.value]
       /\ log' = log \o get_file_log(Year(run), Magpol(run), run.data_type, out)
    /\ UNCHANGED <<file_map, config, ret, store, env, rd, files, handles,
                   calls>>

\* load_root_file, line 208: the read parameters of the channel
Resolve ==
    /\ run.pc = "resolve"
    /\ LET out == get_read_params(config, Channel, run.data_type) IN
       /\ run' = IF out.kind = "raise"
                 THEN [run EXCEPT !.pc = "except", !.exc = out]
                 ELSE [run EXCEPT !.pc = "read", !.params = out.value]
       /\ log' = log \o get_read_params_log(run.data_type, out)
    /\ UNCHANGED <<file_map, config, ret, store, env, rd, files, handles,
                   calls>>

\* load_root_file, lines 209-213: the cap of the configuration and the call
\* of load_root
Read ==
    /\ run.pc = "read"
    /\ LET max_events == Get(config, "max_events")
           bound == bind_load_root(run.ntuple_file, run.params, max_events,
                                   run.kwargs)
       IN  /\ log' = Append(log, Entry("info", "Running simple_load",
                                       Year(run), Magpol(run), max_events))
           /\ IF bound.kind = "raise"
              THEN /\ run' = [run EXCEPT !.pc = "except", !.exc = bound]
                   /\ rd' = rd
              ELSE /\ run' = [run EXCEPT !.pc = "reading"]
                   /\ rd' = Frame("load_root_file", bound.value)
    /\ UNCHANGED <<file_map, config, ret, store, env, files, handles, calls>>

\* load_root has returned or raised: lines 215-220, then back in the loop
\* body; load_multiple_configs_from_config drops the table
AfterRead ==
    /\ run.pc = "reading"
    /\ rd.pc \in {"returned", "raised"}
    /\ rd' = [pc |-> "off"]
    /\ IF rd.pc = "raised"
       THEN /\ run' = [run EXCEPT !.pc = "except", !.exc = rd.out]
            /\ log' = log
       ELSE LET got == load_root_file_returns(rd.out.value, Year(run),
                                              Magpol(run))
                next == IF got.out.kind = "raise"
                        THEN [run EXCEPT !.pc = "except", !.exc = got.out]
                        ELSE IF run.mode = "write"
                        THEN [run EXCEPT !.pc = "write", !.df = got.out.value]
                        ELSE NextCoordinate(run)
            IN  /\ run' = next
                /\ log' = log \o got.log \o LoopHead(next)
    /\ UNCHANGED <<file_map, config, ret, store, env, files, handles, calls>>

\* write_multiple_files_from_config, lines 53-63: the output path and
\* write_df(ntuple_data, path=output_file, key=None, treename="DecayTree")
Write ==
    /\ run.pc = "write"
    /\ LET output_dir == Get(config, "output_storage")
           output_file == OutputFile(output_dir.v, run.data_type, Magpol(run),
                                     Year(run))
           next == NextCoordinate(run)
       IN  IF Falsy(output_dir)
           THEN /\ run' = [run EXCEPT !.pc = "except",
                             !.exc = Raise("ValueError",
                                           "Output directory not specified")]
                /\ log' = Append(log, Entry("error",
                                   "Output directory not specified",
                                   Year(run), Magpol(run), ""))
                /\ files' = files
           ELSE IF output_file \in env.readonly
           THEN /\ run' = [run EXCEPT !.pc = "except",
                             !.exc = Raise("PermissionError", output_file)]
                /\ log' = Append(log, Entry("info", "Writing data",
                                            Year(run), Magpol(run), output_file))
                /\ files' = files
           ELSE /\ run' = next
                /\ files' = write_df(files, run.df, output_file, None,
                                     <<"DecayTree">>)
                /\ log' = log
                     \o <<Entry("info", "Writing data", Year(run), Magpol(run),
                                output_file),
                          Entry("info", "Successfully wrote", Year(run),
                                Magpol(run), "")>>
                     \o LoopHead(next)
    /\ UNCHANGED <<file_map, config, ret, store, env, rd, handles, calls>>

\* except Exception as e: the failure is logged and the loop goes on
Except ==
    /\ run.pc = "except"
    /\ IF caught(run.exc.exc)
       THEN LET next == NextCoordinate(run) IN
            /\ run' = next
            /\ log' = log
                 \o <<Entry("error", IF run.mode = "write"
                                     THEN "Failed to process"
                                     ELSE "Failed to load config",
                            Year(run), Magpol(run), run.exc)>>
                 \o LoopHead(next)
       ELSE /\ run' = [run EXCEPT !.pc = "propagated"]
            /\ log' = log
    /\ UNCHANGED <<file_map, config, ret, store, env, rd, files, handles,
                   calls>>

\* the channel as configured, and with its tree name left out
GoodChannel ==
    ChannelConfig(Some(<<"B2JpsiK">>), Some(<<"DecayTree">>),
                  Some(ScenarioBoi), Some(ScenarioSelection))
NoTreeChannel ==
    ChannelConfig(Some(<<"B2JpsiK">>), None, Some(ScenarioBoi),
                  Some(ScenarioSelection))

\* a configuration document: the keys it gives
RunConfig(years, magpols, output_storage, max_events, channel_config) ==
    LET given == {<<"years", years>>, <<"magpols", magpols>>,
                  <<"output_storage", output_storage>>,
                  <<"max_events", max_events>>,
                  <<"channel", Some(Channel :> channel_config)>>}
        value(f) == (CHOOSE g \in given : g[1] = f)[2]
    IN  [f \in {g[1] : g \in {h \in given : h[2].some}} |-> value(f).v]

RunConfigs ==
    {RunConfig(years, magpols, output_storage, max_events, cc) :
        years \in {None, Some(<<"2018">>), Some(<<"2017", "2018">>)},
        magpols \in {Some(<<>>), Some(<<"MU", "MD">>)},
        output_storage \in {None, Some(<<"out">>)},
        max_events \in {None, Some(1)},
        cc \in {GoodChannel, NoTreeChannel}}

FullFileMap ==
    [y \in YearKeys |-> [d \in DataTypes |->
        ("MU" :> "f1.root") @@ ("MD" :> "f2.root")]]
ScenarioFileMap == ("2018" :> ("data" :> ("MU" :> "f1.root")))
Only2018FileMap == ("2018" :> FullFileMap["2018"])

Tree(rows) == [rows |-> rows, bevs |-> 2, step |-> 2]
SomeEvents == Tree(<<{"PT>500", "TRUEID==13"}, {}, {"PT>500"}>>)
NoEventPasses == Tree(<<{}, {}, {}>>)
NoEvents == Tree(<<>>)

\* the source files: each holds the tree the channel names; a file may also
\* hold a tree at the location load_root_file's call opens
TreeNamed == <<"B2JpsiK", "/", "DecayTree">>
TreeOpened == <<"B2JpsiK", "/", "None">>
Stores ==
    {("f1.root" :> (TreeNamed :> SomeEvents))
        @@ ("f2.root" :> (TreeNamed :> NoEventPasses)),
     ("f1.root" :> ((TreeNamed :> SomeEvents) @@ (TreeOpened :> SomeEvents)))
        @@ ("f2.root" :> ((TreeNamed :> NoEventPasses)
                          @@ (TreeOpened :> NoEventPasses))),
     ("f1.root" :> ((TreeNamed :> SomeEvents) @@ (TreeOpened :> NoEventPasses)))
        @@ ("f2.root" :> ((TreeNamed :> NoEvents) @@ (TreeOpened :> NoEvents)))}

\* the output paths of the MD coordinates, which a medium may refuse
OutputsMD ==
    {OutputFile(<<"out">>, d, "MD", y) : d \in DataTypes, y \in YearKeys}

InitRun ==
    /\ file_map \in {FullFileMap, ScenarioFileMap, Only2018FileMap}
    /\ config \in RunConfigs
    /\ store \in Stores
    /\ env \in [strict_options : BOOLEAN, readonly : {{}, OutputsMD}]
    /\ Idle

NextRun ==
    \/ StartRun \/ Locate \/ Resolve \/ Read
    \/ Open \/ NextBatch \/ Concat \/ Arrays
    \/ AfterRead \/ Write \/ Except

SpecRun == InitRun /\ [][NextRun]_vars

\* the configured coordinates, year-major
Coordinates ==
    [i \in 1..(Len(Years) * Len(MagpolsOf)) |->
        <<Years[((i - 1) \div Len(MagpolsOf)) + 1],
          MagpolsOf[((i - 1) % Len(MagpolsOf)) + 1]>>]

\* the coordinates whose loop body has been entered, in order
Attempts ==
    LET heads == SelectSeq(log, LAMBDA e :
                     e.msg \in {"Processing", "Loading config"})
    IN  [i \in DOMAIN heads |-> <<heads[i].year, heads[i].magpol>>]

\* the lines of the log with message msg about coordinate c
Lines(msg, c) ==
    {i \in DOMAIN log : log[i].msg = msg /\ <<log[i].year, log[i].magpol>> = c}

Failures(c) == Lines("Failed to process", c) \cup Lines("Failed to load config", c)

RunStarted == run.pc # "off"
Current == <<Year(run), Magpol(run)>>

\* C4: in a multi-coordinate run no failure of a coordinate leaves the loop:
\* the exception of a lookup miss, a configuration error, a read error or a
\* write error is logged once for its coordinate, the coordinates are
\* attempted one after the other in configuration order, the run can always
\* go on, and when it returns every configured coordinate has been attempted.
C4_FailureSkipsOnlyItsCoordinate ==
    RunStarted =>
        /\ run.pc # "propagated"
        /\ Len(Attempts) <= Len(Coordinates)
        /\ \A i \in DOMAIN Attempts : Attempts[i] = Coordinates[i]
        /\ run.pc = "done" => Attempts = Coordinates
        /\ run.pc # "done" => ENABLED NextRun
        /\ run.pc = "except" => Failures(Current) = {}
        /\ \A i \in DOMAIN Attempts :
              (run.pc = "done" \/ i < Len(Attempts)) =>
                  LET c == Attempts[i] IN
                  /\ Cardinality(Failures(c)) <= 1
                  /\ Lines("Invalid combination", c) # {} => Failures(c) # {}
                  /\ Failures(c) # {} => Lines("Successfully wrote", c) = {}
                  /\ (Failures(c) = {} /\ run.mode = "write")
                        => Lines("Successfully wrote", c) # {}

\* a run over four coordinates has returned: the first two failed on their
\* lookup and the last one was still written
C4_Witness ==
    /\ run.pc = "done"
    /\ Len(Coordinates) = 4
    /\ \E i \in Failures(Coordinates[1]) : log[i].e.exc = "KeyError"
    /\ \E i \in Failures(Coordinates[2]) : log[i].e.exc = "KeyError"
    /\ Lines("Successfully wrote", Coordinates[4]) # {}

\* the output path of the coordinate being processed
CurrentOutput ==
    OutputFile(Get(config, "output_storage").v, run.data_type, Magpol(run),
               Year(run))

Writable ==
    /\ ~Falsy(Get(config, "output_storage"))
    /\ CurrentOutput \notin env.readonly

\* the lines the step has added to the log, with message msg
Added(msg) ==
    {i \in DOMAIN log' : i > Len(log) /\ log'[i].msg = msg}

\* load_root has handed load_root_file a table without rows
EmptyRead ==
    /\ run.pc = "reading"
    /\ rd.pc = "returned"
    /\ Len(rd.out.value.rows) = 0

\* the orchestrator is about to write a table without rows
EmptyWrite ==
    /\ run.pc = "write"
    /\ Len(run.df.rows) = 0

\* C6: a table without rows is no failure: load_root_file logs a warning for
\* the coordinate, raises nothing and returns the table; a write run then
\* writes the empty table to the coordinate's output and logs the success
\* message, not the failure message (a run that only loads goes on to the
\* next coordinate).
C6_EmptyTableIsProcessed ==
    [][/\ EmptyRead =>
            /\ run'.pc # "except"
            /\ \E i \in Added("No data loaded") :
                  log'[i].level = "warning"
                  /\ <<log'[i].year, log'[i].magpol>> = Current
            /\ Added("Failed to process") \cup Added("Failed to load config")
                 = {}
            /\ run.mode = "write" =>
                  run'.pc = "write" /\ run'.df = rd.out.value
            /\ run.mode = "load" => run'.pc \in {"locate", "done"}
       /\ (EmptyWrite /\ Writable) =>
            /\ run'.pc \in {"locate", "done"}
            /\ files'[CurrentOutput] = (<<"DecayTree">> :> run.df)
            /\ Added("Successfully wrote") # {}
      ]_vars

\* a coordinate whose read gave no rows has been warned about and written
C6_Witness ==
    \E c \in Range(Coordinates) :
        /\ Lines("No data loaded", c) # {}
        /\ Lines("Successfully wrote", c) # {}
        /\ Failures(c) = {}
        /\ \E path \in DOMAIN files :
              /\ path = OutputFile(<<"out">>, run.data_type, c[2], c[1])
              /\ files[path][<<"DecayTree">>].rows = <<>>

\* C10 as stated: the cap of the configuration bounds every read of a run:
\* the read has ranged over no more entries than the cap and returns no more
\* rows than the cap, for each coordinate anew.
C10_ConfiguredCapBoundsEveryRead ==
    (rd.pc # "off" /\ rd.caller = "load_root_file"
        /\ "max_events" \in DOMAIN config) =>
        /\ rd.cursor <= config.max_events
        /\ rd.pc = "returned" => Len(rd.out.value.rows) <= config.max_events

\* the location the channel configuration names for the source
ConfiguredLocation ==
    Location(Some(Configured("key")), Configured("tree"))

\* the output container of coordinate c = <<year, magpol>> of the run
OutputOf(c) ==
    OutputFile(Get(config, "output_storage").v, run.data_type, c[2], c[1])

\* C13 as stated: the table of every coordinate the run has written lies in
\* its output container under the (key, tree name) location the channel
\* configuration names for the source.
C13_OutputKeepsKeyAndTree ==
    \A c \in Range(Coordinates) :
        Lines("Successfully wrote", c) # {} =>
            ConfiguredLocation \in DOMAIN files[OutputOf(c)]

\* the lines that open a turn of the loop, and the lines of the turn opened
\* by line h: those up to the next opening line
Heads == {i \in DOMAIN log : log[i].msg \in {"Processing", "Loading config"}}

SegmentOf(h) ==
    {i \in DOMAIN log : i >= h /\ \A g \in Heads : g > h => i < g}

\* the step of the coordinate that hands the logger a line
StepOf(msg) ==
    CASE msg \in {"Processing", "Loading config"} -> 0
      [] msg \in {"Fetching file", "Invalid combination"} -> 1
      [] msg = "Received input loading coordinates" -> 2
      [] msg \in {"Running simple_load", "File Load Report",
                  "No data loaded"} -> 3
      [] msg \in {"Output directory not specified", "Writing data",
                  "Successfully wrote"} -> 4
      [] OTHER -> 5

\* the lines with message msg among the lines seg
Said(seg, msgs) == {i \in seg : log[i].msg \in msgs}

\* C16: every configured (year, polarity) position is attempted once, in
\* year-major configuration order, no coordinate a second time after a
\* failure; within a coordinate the steps are locate, resolve, read, write in
\* that order, each at most once; a failed step is followed by no later step
\* of the coordinate (no resolve or read after a lookup failure, no read
\* before the selection is resolved, no write unless the read returned);
\* every step of a coordinate lies between its opening line and the next
\* coordinate's; load_root runs only inside the read step.
C16_StepsInOrderOneCoordinateAtATime ==
    RunStarted =>
        /\ Len(Attempts) <= Len(Coordinates)
        /\ \A i \in DOMAIN Attempts : Attempts[i] = Coordinates[i]
        /\ run.pc = "done" => Len(Attempts) = Len(Coordinates)
        /\ run.pc \notin {"done", "propagated"} =>
              /\ Len(Attempts) > 0
              /\ Current = Attempts[Len(Attempts)]
        /\ rd.pc # "off" =>
              /\ run.pc = "reading"
              /\ log[Len(log)].msg = "Running simple_load"
        /\ \A h \in Heads :
              LET seg == SegmentOf(h)
                  c == <<log[h].year, log[h].magpol>>
              IN  /\ \A i, j \in seg :
                        i < j => StepOf(log[i].msg) <= StepOf(log[j].msg)
                  /\ \A i \in seg :
                        "year" \in DOMAIN log[i]
                            => <<log[i].year, log[i].magpol>> = c
                  /\ \A m \in {"Fetching file",
                               "Received input loading coordinates",
                               "Running simple_load", "Writing data",
                               "Successfully wrote", "Failed to process",
                               "Failed to load config"} :
                        Cardinality(Said(seg, {m})) <= 1
                  /\ Said(seg, {"Invalid combination"}) # {} =>
                        Said(seg, {"Received input loading coordinates",
                                   "Running simple_load", "Writing data"}) = {}
                  /\ Said(seg, {"Running simple_load"}) # {} =>
                        Said(seg, {"Received input loading coordinates"}) # {}
                  /\ Said(seg, {"Writing data", "Successfully wrote"}) # {} =>
                        /\ Said(seg, {"File Load Report", "No data loaded"})
                              # {}
                        /\ run.mode = "write"
                  /\ Said(seg, {"Successfully wrote"}) # {} =>
                        /\ Said(seg, {"Failed to process"}) = {}
                        /\ OutputOf(c) \in DOMAIN files
        /\ \A path \in DOMAIN files :
              \E h \in Heads :
                  /\ path = OutputOf(<<log[h].year, log[h].magpol>>)
                  /\ Said(SegmentOf(h), {"Successfully wrote"}) # {}

\* a run over four coordinates has returned: the first failed on its lookup,
\* the third was read and written, the fourth was read and failed on its
\* write
C16_Witness ==
    /\ run.pc = "done"
    /\ Len(Coordinates) = 4
    /\ \E i \in Failures(Coordinates[1]) : log[i].e.exc = "KeyError"
    /\ Lines("Successfully wrote", Coordinates[3]) # {}
    /\ \E i \in Failures(Coordinates[4]) : log[i].e.exc = "PermissionError"

\* a file index over year labels one of which is spelled with an underscore
LabelFileMap ==
    ("2018" :> [d \in DataTypes |-> ("MU" :> "f1.root") @@ ("MD" :> "f2.root")])
    @@ ("MD_2018" :>
          [d \in DataTypes |-> ("MU" :> "f2.root") @@ ("MD" :> "f1.root")])

\* configurations over those years, in either order, and one naming a year
\* twice
LabelConfigs ==
    {RunConfig(Some(years), Some(<<"MU", "MD">>), Some(<<"out">>), None,
               GoodChannel) :
        years \in {<<"2018", "MD_2018">>, <<"MD_2018", "2018">>,
                   <<"2018", "2018">>}}

\* the output paths a medium may refuse: those of (MD_2018, MD)
OutputsRefused ==
    {OutputFile(<<"out">>, d, "MD", "MD_2018") : d \in DataTypes}

InitPaths ==
    /\ file_map = LabelFileMap
    /\ config \in LabelConfigs
    /\ store \in Stores
    /\ env \in [strict_options : BOOLEAN, readonly : {{}, OutputsRefused}]
    /\ Idle

SpecPaths == InitPaths /\ [][NextRun]_vars

\* the table load_root gives for coordinate c of the run: the events of the
\* tree it opens that pass the resolved cut, in entry order
TableOf(c) ==
    LET ntuple_file == file_map[c[1]][run.data_type][c[2]]
        params == get_read_params(config, Channel, run.data_type).value
        events == store[ntuple_file][SourceLocation(Some(params.key), None)]
    IN  arrays(events, params.boi, Some(params.sel), None)

Written == {c \in Range(Coordinates) : Lines("Successfully wrote", c) # {}}

\* C17: in write_multiple_files_from_config two different (year, polarity)
\* pairs of a run have different output paths, so no write of the run
\* recreates another pair's file: at every point of the run, and after it,
\* the output of every pair written so far is present and holds that pair's
\* own rows, and there is one output file per written pair.
C17_EveryCoordinateKeepsItsOutput ==
    RunStarted =>
        /\ \A c, d \in Range(Coordinates) :
              c # d => OutputOf(c) # OutputOf(d)
        /\ \A c \in Written :
              /\ OutputOf(c) \in DOMAIN files
              /\ files[OutputOf(c)] = (<<"DecayTree">> :> TableOf(c))
        /\ Cardinality(DOMAIN files) = Cardinality(Written)

\* the run has returned with all four pairs written, (2018, MU) with rows
\* and (MD_2018, MU), written after it, without
C17_Witness ==
    /\ run.pc = "done"
    /\ Cardinality(Written) = 4
    /\ files[OutputOf(<<"2018", "MU">>)][<<"DecayTree">>].rows # <<>>
    /\ files[OutputOf(<<"MD_2018", "MU">>)][<<"DecayTree">>].rows = <<>>

----------------------------------------------------------------------------
(* Remote source: DataSourceFactory.create_data_source, EosDataSource,
   kinit *)

CERN == "@CERN.CH"

\* what the kinit process can do with the password it is sent: exit 0, exit
\* non-zero, or not start at all (Popen raises); before that, getpass may
\* find no input to read
KinitOutcomes == {"exit 0", "exit 1", "popen raises", "no password"}

\* kinit(username): the realm is appended when missing; getpass is outside
\* the try block; every other result is printed and None is returned
kinit(username, outcome) ==
    LET principal == IF Len(username) > 0 /\ username[Len(username)] = CERN
                     THEN username ELSE Append(username, CERN)
    IN  CASE outcome = "no password" ->
                [out |-> Raise("EOFError", "EOF when reading a line"),
                 principal |-> principal, printed |-> ""]
          [] outcome = "exit 0" ->
                [out |-> Return(None), principal |-> principal,
                 printed |-> "Successfully authenticated"]
          [] outcome = "exit 1" ->
                [out |-> Return(None), principal |-> principal,
                 printed |-> "Authentication failed"]
          [] OTHER ->
                [out |-> Return(None), principal |-> principal,
                 printed |-> "Error during kinit"]

\* EosDataSource.authenticate: the user_id of the configuration, then kinit
authenticate(cfg, outcome) ==
    LET user_id == Get(cfg, "user_id") IN
    IF Falsy(user_id)
    THEN [out |-> Raise("ValueError", "User ID not specified"),
          principal |-> <<>>, printed |-> "", kinit |-> "not called",
          log |-> <<Entry("error", "User ID not specified", "", "", "")>>]
    ELSE LET k == kinit(user_id.v, outcome) IN
         [out |-> k.out, principal |-> k.principal, printed |-> k.printed,
          kinit |-> outcome, log |-> <<>>]

\* a configuration document with a user_id added to it
WithUser(cfg, user_id) ==
    IF user_id.some THEN ("user_id" :> user_id.v) @@ cfg ELSE cfg

UserIds == {None, Some(<<>>), Some(<<"alice">>), Some(<<"alice", CERN>>)}

EosConfigs ==
    {WithUser(RunConfig(Some(<<"2018">>), Some(<<"MU", "MD">>),
                        Some(<<"out">>), None, GoodChannel), u) :
        u \in UserIds}

\* before DataSourceFactory.create_data_source("butojpsik_mm"): the
\* documents the constructor will load, the remote files, no object yet
InitEos ==
    /\ file_map = Only2018FileMap
    /\ config \in EosConfigs
    /\ store \in Stores
    /\ env \in [strict_options : BOOLEAN, readonly : {{}}]
    /\ Idle

\* EosDataSource.__init__: DataSource.__init__, then self.authenticate();
\* the caller holds the object only when the constructor returns
CreateDataSource ==
    /\ ret = NoCall
    /\ \E outcome \in KinitOutcomes :
         LET a == authenticate(config, outcome) IN
         /\ ret' = [op |-> "create_data_source", kinit |-> a.kinit,
                    principal |-> a.principal, printed |-> a.printed,
                    out |-> IF a.out.kind = "raise" THEN a.out
                            ELSE Return("EosDataSource")]
         /\ log' = log \o a.log
    /\ UNCHANGED <<file_map, config, store, env, rd, files, handles, calls,
                   run>>

Created == ret.op = "create_data_source" /\ ret.out.kind = "return"

\* a multi-coordinate method is called on the object the factory returned
EosStartRun == Created /\ StartRun

NextEos ==
    \/ CreateDataSource \/ EosStartRun \/ Locate \/ Resolve \/ Read
    \/ Open \/ NextBatch \/ Concat \/ Arrays
    \/ AfterRead \/ Write \/ Except

SpecEos == InitEos /\ [][NextEos]_vars

\* the external authentication step has failed
KinitFailed ==
    /\ ret.op = "create_data_source"
    /\ ret.kinit \in {"exit 1", "popen raises"}

\* C12 as stated: whenever the external authentication step (kinit) has
\* failed, processing is short-circuited: no read is attempted and no source
\* container is opened afterwards, for any coordinate.
C12_AuthFailureShortCircuits ==
    KinitFailed =>
        /\ rd.pc = "off"
        /\ run.pc \notin {"reading", "write"}

====
